---- MODULE Spec2Model ----
(***************************************************************************)
(* A model of harbor-scanner-tunnel's scan job store                       *)
(* (pkg/persistence/redis/store.go) and of its report transformer.         *)
(*                                                                         *)
(* The store keeps one JSON document per scan job in Redis under the key   *)
(* "{namespace}:scan-job:{id}" with a time-to-live.  Create is one Redis   *)
(* command (SET ... NX); UpdateStatus and UpdateReport are a GET followed  *)
(* by a SET ... XX, two commands between which other callers and the       *)
(* expiry of keys may interleave.                                          *)
(***************************************************************************)
EXTENDS Naturals, Sequences, FiniteSets, TLC

VARIABLES
    rdb,        \* Redis: key -> stored string; a key outside DOMAIN rdb is absent
    ttl,        \* Redis: key -> remaining time-to-live in ticks, same domain as rdb
    pc,         \* caller -> "idle", or the update operation it is in the middle of
    scanJob,    \* caller -> the *job.ScanJob it read and changed, to be written by update
    last,       \* what the latest step did and returned to its caller
    sinceWrite, \* job id -> ticks since the key was last written (history)
    source,     \* the transformer's input: a []tunnel.Vulnerability, nil or not
    report,     \* <<>>, or <<r>> with r the transformer's output for source
    calls,      \* store calls made so far
    cfg,        \* store instance -> its configuration (the Namespace)
    keys        \* the keys the store instances have built, with what they built them for

vars == <<rdb, ttl, pc, scanJob, last, sinceWrite, source, report, calls, cfg, keys>>

transformVars == <<source, report>>

keyVars == <<cfg, keys>>

(***************************************************************************)
(* Bounds and configuration                                                *)
(***************************************************************************)

\* cfg.ScanJobTTL, in clock ticks.
ScanJobTTL == 2

\* The number of store calls (Create, Get, UpdateStatus, UpdateReport) and of
\* foreign writes in a run.
MaxCalls == 3

\* cfg.Namespace
Namespace == "ns"

\* The goroutines (possibly of several adapter instances) that run updates.
Callers == {"c1", "c2"}

\* The store instances that share one Redis.
Stores == {"s1", "s2"}

JobIDs == {"j1", "j2"}

\* job.ScanJobStatus values.
Statuses == {"Queued", "Finished"}

\* ScanJob.Error values; "" is the zero value.
ErrorMsgs == {"", "boom"}

\* The variadic `error ...string` argument of UpdateStatus: no message, or one.
ErrorArgs == {<<>>, <<"boom">>}

\* harbor.ScanReport values, kept abstract in the store; "R0" is the zero value.
Reports == {"R0", "R1"}

\* The zero value of job.ScanJob.
ZeroScanJob == [ID |-> "", Status |-> "Queued", Error |-> "", Report |-> "R0"]

ScanJobs == [ID : JobIDs, Status : Statuses, Error : ErrorMsgs, Report : Reports]

(***************************************************************************)
(* Encoding: json.Marshal / json.Unmarshal of job.ScanJob.  A JSON text is *)
(* modelled as its token sequence: "{", then name, value, ..., then "}".   *)
(* Every ScanJob of the model encodes, so Marshal returns no error.        *)
(***************************************************************************)

Marshal(job) ==
    <<"{", "id", job.ID, "status", job.Status,
      "error", job.Error, "report", job.Report, "}">>

\* A text json.Unmarshal accepts as an object.
WellFormed(value) ==
    /\ Len(value) >= 2
    /\ Len(value) % 2 = 0
    /\ value[1] = "{"
    /\ value[Len(value)] = "}"

\* The value of member `name` (the last one wins), or `zero` when there is none.
Member(value, name, zero) ==
    LET idx == {i \in 1..((Len(value) - 2) \div 2) : value[2 * i] = name}
    IN IF idx = {} THEN zero
       ELSE value[2 * (CHOOSE i \in idx : \A j \in idx : j <= i) + 1]

Unmarshal(value) ==
    IF WellFormed(value)
    THEN [ok |-> TRUE,
          job |-> [ID     |-> Member(value, "id", ZeroScanJob.ID),
                   Status |-> Member(value, "status", ZeroScanJob.Status),
                   Error  |-> Member(value, "error", ZeroScanJob.Error),
                   Report |-> Member(value, "report", ZeroScanJob.Report)]]
    ELSE [ok |-> FALSE, job |-> ZeroScanJob]

(***************************************************************************)
(* Keys                                                                    *)
(***************************************************************************)

\* keyForScanJob dropping the job id: every job of the store has one key.
keyForScanJob_NoID(scanJobID) == Namespace \o ":scan-job:"

\* fmt.Sprintf("%s:scan-job:%s", s.cfg.Namespace, scanJobID) for a store with
\* the configuration storeCfg.
keyForScanJobOf(storeCfg, scanJobID) ==
    storeCfg.Namespace \o ":scan-job:" \o scanJobID

keyForScanJob(scanJobID) == keyForScanJobOf([Namespace |-> Namespace], scanJobID)

\* The job id a key of this store was built from.
IdOfKey(key) == CHOOSE id \in JobIDs : keyForScanJob(id) = key

Put(f, k, v) == [x \in (DOMAIN f) \cup {k} |-> IF x = k THEN v ELSE f[x]]

Drop(f, ks) == [x \in (DOMAIN f) \ ks |-> f[x]]

(***************************************************************************)
(* What a step reports.                                                    *)
(*   op        the store operation the step belongs to                     *)
(*   step      the command it ran: "SetNX", "Get" or "update"              *)
(*   id        the job id                                                  *)
(*   res       what the operation returned: "ok" (a nil error), "absent"   *)
(*             (Get's nil, nil), "NotFound", "Storage", "Corruption",      *)
(*             "panic"; or "proceed" when the operation goes on to update  *)
(*   job       the job passed in (Create), returned (Get) or written       *)
(*   present   whether the key was in Redis when the command ran           *)
(*   ttlWas    the time-to-live the key had then, 0 for an absent key      *)
(*   wrote     whether Redis stored the value                              *)
(*   backendOK whether the command reached Redis and was answered          *)
(*   lost      whether an update's write came right after another update's *)
(*             write of the same job and replaced a record that differed   *)
(*             from the written one in a field the operation does not set  *)
(***************************************************************************)

Lost(op, step, job, wrote) ==
    /\ step = "update"
    /\ wrote
    /\ last.step = "update"
    /\ last.wrote
    /\ last.id = job.ID
    /\ IF op = "UpdateStatus"
       THEN last.job.Report # job.Report
       ELSE last.job.Status # job.Status \/ last.job.Error # job.Error

Event(op, step, id, res, job, key, wrote, backendOK) ==
    [op |-> op, step |-> step, id |-> id, res |-> res, job |-> job,
     present |-> key \in DOMAIN rdb,
     ttlWas |-> IF key \in DOMAIN ttl THEN ttl[key] ELSE 0,
     wrote |-> wrote, backendOK |-> backendOK,
     lost |-> Lost(op, step, job, wrote)]

NoEvent ==
    [op |-> "none", step |-> "-", id |-> "", res |-> "ok", job |-> ZeroScanJob,
     present |-> FALSE, ttlWas |-> 0, wrote |-> FALSE, backendOK |-> TRUE,
     lost |-> FALSE]

\* A store call or a foreign write: the run makes at most MaxCalls of them.
Call == calls < MaxCalls /\ calls' = calls + 1

(***************************************************************************)
(* Redis commands as go-redis returns them.  SET ... NX and SET ... XX     *)
(* answer nil when the condition does not hold; go-redis turns that answer *)
(* into the value false with a nil error, and Err() returns the error.     *)
(* A command that fails (backendOK = FALSE) did not reach Redis.           *)
(***************************************************************************)

\* The same as SetNX, without the NX condition (a plain SET).
SetNX_Overwrite(key, value, expiration) ==
    /\ rdb' = Put(rdb, key, value)
    /\ ttl' = Put(ttl, key, expiration)
    /\ sinceWrite' = [sinceWrite EXCEPT ![IdOfKey(key)] = 0]

\* s.rdb.SetNX(ctx, key, value, expiration): store only if key is absent.
SetNX(key, value, expiration) ==
    IF key \in DOMAIN rdb
    THEN UNCHANGED <<rdb, ttl, sinceWrite>>
    ELSE /\ rdb' = Put(rdb, key, value)
         /\ ttl' = Put(ttl, key, expiration)
         /\ sinceWrite' = [sinceWrite EXCEPT ![IdOfKey(key)] = 0]

\* The same as SetXX, keeping the time-to-live the key has (KeepTTL).
SetXX_KeepTTL(key, value, expiration) ==
    IF key \in DOMAIN rdb
    THEN /\ rdb' = Put(rdb, key, value)
         /\ ttl' = ttl
         /\ sinceWrite' = [sinceWrite EXCEPT ![IdOfKey(key)] = 0]
    ELSE UNCHANGED <<rdb, ttl, sinceWrite>>

\* The same as SetXX, without the XX condition (a plain SET).
SetXX_Upsert(key, value, expiration) ==
    /\ rdb' = Put(rdb, key, value)
    /\ ttl' = Put(ttl, key, expiration)
    /\ sinceWrite' = [sinceWrite EXCEPT ![IdOfKey(key)] = 0]

\* SetXX that keeps the stored report and writes the other fields.
SetXX_KeepReport(key, value, expiration) ==
    IF key \in DOMAIN rdb
    THEN /\ rdb' = Put(rdb, key,
                       Marshal([Unmarshal(value).job EXCEPT
                                   !.Report = Unmarshal(rdb[key]).job.Report]))
         /\ ttl' = Put(ttl, key, expiration)
         /\ sinceWrite' = [sinceWrite EXCEPT ![IdOfKey(key)] = 0]
    ELSE UNCHANGED <<rdb, ttl, sinceWrite>>

\* s.rdb.SetXX(ctx, key, value, expiration): store only if key is present.
SetXX(key, value, expiration) ==
    IF key \in DOMAIN rdb
    THEN /\ rdb' = Put(rdb, key, value)
         /\ ttl' = Put(ttl, key, expiration)
         /\ sinceWrite' = [sinceWrite EXCEPT ![IdOfKey(key)] = 0]
    ELSE UNCHANGED <<rdb, ttl, sinceWrite>>

(***************************************************************************)
(* store.Get: (nil, nil) for an absent key, (nil, err) when the command    *)
(* fails or the value does not decode, (&scanJob, nil) otherwise.          *)
(***************************************************************************)

\* Get without the errors.Is(err, redis.Nil) branch: an absent key is an error.
GetResult_NilIsError(db, scanJobID, backendOK) ==
    LET key == keyForScanJob(scanJobID)
    IN IF ~backendOK \/ key \notin DOMAIN db
       THEN [isNil |-> TRUE, job |-> ZeroScanJob, err |-> "Storage"]
       ELSE IF ~Unmarshal(db[key]).ok
       THEN [isNil |-> TRUE, job |-> ZeroScanJob, err |-> "Corruption"]
       ELSE [isNil |-> FALSE, job |-> Unmarshal(db[key]).job, err |-> "nil"]

\* Get decoding into a ScanJob other than the one it returns.
GetResult_NoDecode(db, scanJobID, backendOK) ==
    LET key == keyForScanJob(scanJobID)
    IN IF ~backendOK
       THEN [isNil |-> TRUE, job |-> ZeroScanJob, err |-> "Storage"]
       ELSE IF key \notin DOMAIN db
       THEN [isNil |-> TRUE, job |-> ZeroScanJob, err |-> "nil"]
       ELSE IF ~Unmarshal(db[key]).ok
       THEN [isNil |-> TRUE, job |-> ZeroScanJob, err |-> "Corruption"]
       ELSE [isNil |-> FALSE, job |-> ZeroScanJob, err |-> "nil"]

GetResult(db, scanJobID, backendOK) ==
    LET key == keyForScanJob(scanJobID)
    IN IF ~backendOK
       THEN [isNil |-> TRUE, job |-> ZeroScanJob, err |-> "Storage"]
       ELSE IF key \notin DOMAIN db
       THEN [isNil |-> TRUE, job |-> ZeroScanJob, err |-> "nil"]
       ELSE IF ~Unmarshal(db[key]).ok
       THEN [isNil |-> TRUE, job |-> ZeroScanJob, err |-> "Corruption"]
       ELSE [isNil |-> FALSE, job |-> Unmarshal(db[key]).job, err |-> "nil"]

\* What Get's caller sees in (scanJob, err).
GetOutcome(got) ==
    IF got.err # "nil" THEN got.err
    ELSE IF got.isNil THEN "absent" ELSE "ok"

Init ==
    /\ rdb = [k \in {} |-> <<>>]
    /\ ttl = [k \in {} |-> 0]
    /\ pc = [c \in Callers |-> "idle"]
    /\ scanJob = [c \in Callers |-> ZeroScanJob]
    /\ last = NoEvent
    /\ sinceWrite = [id \in JobIDs |-> 0]
    /\ source = [isNil |-> TRUE, elems |-> <<>>]
    /\ report = <<>>
    /\ calls = 0
    /\ cfg = [s \in Stores |-> [Namespace |-> Namespace]]
    /\ keys = {}

(***************************************************************************)
(* store.Create                                                            *)
(***************************************************************************)

Create(job, backendOK) ==
    LET key == keyForScanJob(job.ID)
    IN /\ Call
       /\ IF backendOK
          THEN /\ SetNX(key, Marshal(job), ScanJobTTL)
               /\ last' = Event("Create", "SetNX", job.ID, "ok", job,
                                key, key \notin DOMAIN rdb, TRUE)
          ELSE /\ UNCHANGED <<rdb, ttl, sinceWrite>>
               /\ last' = Event("Create", "SetNX", job.ID, "Storage", ZeroScanJob,
                                key, FALSE, FALSE)
       /\ UNCHANGED <<pc, scanJob, transformVars, keyVars>>

(***************************************************************************)
(* store.Get as an operation of its own                                    *)
(***************************************************************************)

Get(scanJobID, backendOK) ==
    LET got == GetResult(rdb, scanJobID, backendOK)
    IN /\ Call
       /\ last' = Event("Get", "Get", scanJobID, GetOutcome(got), got.job,
                        keyForScanJob(scanJobID), FALSE, backendOK)
       /\ UNCHANGED <<rdb, ttl, pc, scanJob, sinceWrite, transformVars, keyVars>>

(***************************************************************************)
(* store.UpdateStatus up to its call of update: the read, the checks of    *)
(* what Get returned, and the change of the job read.                      *)
(*                                                                         *)
(* Idle callers are interchangeable (nothing of a caller outlives its      *)
(* call), so the caller that starts an update while none is running is     *)
(* named c1.                                                               *)
(***************************************************************************)

FirstCaller(c) == c = "c1" \/ pc["c1"] # "idle"

\* UpdateStatus checking err before scanJob, and not scanJob at all.
UpdateStatusCheck_NoNilCheck(got) ==
    IF got.err # "nil" THEN got.err
    ELSE "proceed"

\* Lines 94-98: what UpdateStatus does with Get's (scanJob, err).
UpdateStatusCheck(got) ==
    IF got.isNil THEN "NotFound"
    ELSE IF got.err # "nil" THEN got.err
    ELSE "proceed"

\* Lines 100-103 assigning the error unconditionally: no message clears it.
SetStatus_AlwaysSetsError(job, newStatus, error) ==
    [job EXCEPT !.Status = newStatus,
                !.Error = IF Len(error) > 0 THEN error[1] ELSE ""]

\* Lines 100-103.
SetStatus(job, newStatus, error) ==
    [job EXCEPT !.Status = newStatus,
                !.Error = IF Len(error) > 0 THEN error[1] ELSE @]

UpdateStatus(c, scanJobID, newStatus, error, backendOK) ==
    LET got == GetResult(rdb, scanJobID, backendOK)
        chk == UpdateStatusCheck(got)
    IN /\ Call
       /\ pc[c] = "idle"
       /\ FirstCaller(c)
       /\ IF chk = "proceed"
          THEN /\ pc' = [pc EXCEPT ![c] = "UpdateStatus"]
               /\ scanJob' = [scanJob EXCEPT ![c] = SetStatus(got.job, newStatus, error)]
          ELSE UNCHANGED <<pc, scanJob>>
       /\ last' = Event("UpdateStatus", "Get", scanJobID, chk, got.job,
                        keyForScanJob(scanJobID), FALSE, backendOK)
       /\ UNCHANGED <<rdb, ttl, sinceWrite, transformVars, keyVars>>

(***************************************************************************)
(* store.UpdateReport up to its call of update.  Only err is checked       *)
(* before scanJob.Report is assigned: with Get's (nil, nil) the assignment *)
(* dereferences a nil pointer and the goroutine panics.                    *)
(***************************************************************************)

\* Lines 112-116: what UpdateReport does with Get's (scanJob, err).
UpdateReportCheck(got) ==
    IF got.err # "nil" THEN got.err
    ELSE IF got.isNil THEN "panic"
    ELSE "proceed"

\* Line 116.
SetReport(job, rep) == [job EXCEPT !.Report = rep]

UpdateReport(c, scanJobID, rep, backendOK) ==
    LET got == GetResult(rdb, scanJobID, backendOK)
        chk == UpdateReportCheck(got)
    IN /\ Call
       /\ pc[c] = "idle"
       /\ FirstCaller(c)
       /\ IF chk = "proceed"
          THEN /\ pc' = [pc EXCEPT ![c] = "UpdateReport"]
               /\ scanJob' = [scanJob EXCEPT ![c] = SetReport(got.job, rep)]
          ELSE UNCHANGED <<pc, scanJob>>
       /\ last' = Event("UpdateReport", "Get", scanJobID, chk, got.job,
                        keyForScanJob(scanJobID), FALSE, backendOK)
       /\ UNCHANGED <<rdb, ttl, sinceWrite, transformVars, keyVars>>

(***************************************************************************)
(* store.update: the write that ends UpdateStatus and UpdateReport, which  *)
(* return what it returns.                                                 *)
(***************************************************************************)

update(c, backendOK) ==
    LET job == scanJob[c]
        key == keyForScanJob(job.ID)
    IN /\ pc[c] # "idle"
       /\ IF backendOK
          THEN /\ SetXX(key, Marshal(job), ScanJobTTL)
               /\ last' = Event(pc[c], "update", job.ID, "ok", job,
                                key, key \in DOMAIN rdb, TRUE)
          ELSE /\ UNCHANGED <<rdb, ttl, sinceWrite>>
               /\ last' = Event(pc[c], "update", job.ID, "Storage", job,
                                key, FALSE, FALSE)
       /\ pc' = [pc EXCEPT ![c] = "idle"]
       /\ scanJob' = [scanJob EXCEPT ![c] = ZeroScanJob]
       /\ UNCHANGED <<transformVars, keyVars, calls>>

(***************************************************************************)
(* Redis' clock: one tick passes for every key; a key whose time-to-live   *)
(* runs out is removed.                                                    *)
(***************************************************************************)

Expired == {k \in DOMAIN ttl : ttl[k] <= 1}

Tick ==
    /\ rdb' = Drop(rdb, Expired)
    /\ ttl' = [k \in (DOMAIN ttl) \ Expired |-> ttl[k] - 1]
    /\ sinceWrite' = [id \in JobIDs |->
                        IF keyForScanJob(id) \in (DOMAIN ttl) \ Expired
                        THEN sinceWrite[id] + 1 ELSE 0]
    /\ last' = [NoEvent EXCEPT !.op = "Tick"]
    /\ UNCHANGED <<pc, scanJob, transformVars, keyVars, calls>>

Next ==
    \/ \E job \in ScanJobs, ok \in BOOLEAN : Create(job, ok)
    \/ \E id \in JobIDs, ok \in BOOLEAN : Get(id, ok)
    \/ \E c \in Callers, id \in JobIDs, st \in Statuses, e \in ErrorArgs, ok \in BOOLEAN :
          UpdateStatus(c, id, st, e, ok)
    \/ \E c \in Callers, id \in JobIDs, rep \in Reports, ok \in BOOLEAN :
          UpdateReport(c, id, rep, ok)
    \/ \E c \in Callers, ok \in BOOLEAN : update(c, ok)
    \/ Tick

Spec == Init /\ [][Next]_vars

(***************************************************************************)
(* The store on a Redis that something else writes to as well: a stored    *)
(* value may be cut short, and is then no JSON object any more.            *)
(***************************************************************************)

Corrupt(id) ==
    LET key == keyForScanJob(id)
    IN /\ Call
       /\ key \in DOMAIN rdb
       /\ WellFormed(rdb[key])
       /\ rdb' = [rdb EXCEPT ![key] = SubSeq(@, 1, Len(@) - 1)]
       /\ last' = Event("Corrupt", "-", id, "ok", ZeroScanJob, key, TRUE, TRUE)
       /\ UNCHANGED <<ttl, pc, scanJob, sinceWrite, transformVars, keyVars>>

NextShared ==
    \/ Next
    \/ \E id \in JobIDs : Corrupt(id)

SpecShared == Init /\ [][NextShared]_vars

(***************************************************************************)
(* The report transformer (package scan).                                  *)
(***************************************************************************)

\* The longest source list.
MaxLen == 3

\* harbor.Severity, in its order.
SevUnknown == 1

SevLow == 2

SevMedium == 3

SevHigh == 4

SevCritical == 5

\* A Go slice: nil, or a (possibly empty) sequence.
NilSlice == [isNil |-> TRUE, elems |-> <<>>]

Slice(elems) == [isNil |-> FALSE, elems |-> elems]

tunnelToHarborSeverityMap ==
    [s \in {"CRITICAL", "HIGH", "MEDIUM", "LOW", "UNKNOWN"} |->
        CASE s = "CRITICAL" -> SevCritical
          [] s = "HIGH"     -> SevHigh
          [] s = "MEDIUM"   -> SevMedium
          [] s = "LOW"      -> SevLow
          [] s = "UNKNOWN"  -> SevUnknown]

\* toHarborSeverity without the `ok` test: a string the map does not have
\* yields the map's zero value.
toHarborSeverity_NoOkTest(severity) ==
    IF severity \in DOMAIN tunnelToHarborSeverityMap
    THEN tunnelToHarborSeverityMap[severity]
    ELSE 0

toHarborSeverity(severity) ==
    IF severity \in DOMAIN tunnelToHarborSeverityMap
    THEN tunnelToHarborSeverityMap[severity]
    ELSE SevUnknown

\* A Go map: nil, or a (possibly empty) function.
NilMap == [isNil |-> TRUE, m |-> <<>>]

Map(m) == [isNil |-> FALSE, m |-> m]

\* toVendorAttributes without the len(info) > 0 test.
toVendorAttributes_NoLenTest(info) == Map([k \in {"CVSS"} |-> info])

toVendorAttributes(info) ==
    IF Cardinality(DOMAIN info.m) > 0
    THEN Map([k \in {"CVSS"} |-> info])
    ELSE Map(<<>>)

\* toLinks with the references kept after the primary URL.
toLinks_KeepReferences(primaryURL, references) ==
    IF primaryURL # "" THEN Slice(<<primaryURL>> \o references.elems)
    ELSE IF references.isNil THEN Slice(<<>>)
    ELSE references

toLinks(primaryURL, references) ==
    IF primaryURL # "" THEN Slice(<<primaryURL>>)
    ELSE IF references.isNil THEN Slice(<<>>)
    ELSE references

\* The loop of toHighestSeverity from item i on, with `highest` so far.
RECURSIVE HighestFrom(_, _, _)
HighestFrom(vlns, i, highest) ==
    IF i > Len(vlns) THEN highest
    ELSE IF vlns[i].Severity > highest
         THEN IF vlns[i].Severity = SevCritical
              THEN vlns[i].Severity
              ELSE HighestFrom(vlns, i + 1, vlns[i].Severity)
         ELSE HighestFrom(vlns, i + 1, highest)

\* The loop with its break one level up: it stops at the first raise.
RECURSIVE HighestFrom_BreakOnRaise(_, _, _)
HighestFrom_BreakOnRaise(vlns, i, highest) ==
    IF i > Len(vlns) THEN highest
    ELSE IF vlns[i].Severity > highest
         THEN vlns[i].Severity
         ELSE HighestFrom_BreakOnRaise(vlns, i + 1, highest)

toHighestSeverity_BreakOnRaise(vlns) == HighestFrom_BreakOnRaise(vlns, 1, SevUnknown)

toHighestSeverity(vlns) == HighestFrom(vlns, 1, SevUnknown)

\* One harbor.VulnerabilityItem of Transform's loop.
toItem(v) ==
    [ID       |-> v.VulnerabilityID,
     Severity |-> toHarborSeverity(v.Severity),
     Links    |-> toLinks(v.PrimaryURL, v.References),
     VendorAttributes |-> toVendorAttributes(v.CVSS)]

\* Lines 128-143 with the slice declared and appended to, not made: it is nil
\* when the loop never runs.
TransformItems_Appended(src) ==
    IF Len(src.elems) = 0 THEN NilSlice
    ELSE Slice([i \in 1..Len(src.elems) |-> toItem(src.elems[i])])

\* Lines 128-143: make([]harbor.VulnerabilityItem, len(source)) and the loop
\* that fills it.
TransformItems(src) ==
    Slice([i \in 1..Len(src.elems) |-> toItem(src.elems[i])])

TransformResult(artifact, src) ==
    LET vulnerabilities == TransformItems(src)
    IN [Artifact        |-> artifact,
        Severity        |-> toHighestSeverity(vulnerabilities.elems),
        Vulnerabilities |-> vulnerabilities]

(***************************************************************************)
(* The inputs of Transform: lists of up to MaxLen tunnel.Vulnerability,    *)
(* which vary in their severity string, in their links or in their CVSS.   *)
(***************************************************************************)

SeverityStrings ==
    {"CRITICAL", "HIGH", "MEDIUM", "LOW", "UNKNOWN", "WHATEVER", "critical", ""}

ReferenceLists == {NilSlice, Slice(<<>>), Slice(<<"r1">>), Slice(<<"r1", "r2">>)}

\* map[string]tunnel.CVSSInfo values: nil, empty, and with one entry.
CVSSMaps == {NilMap, Map(<<>>), Map([k \in {"nvd"} |-> "7.5"])}

Vulnerabilities ==
    {[VulnerabilityID |-> "CVE-1", Severity |-> s,
      PrimaryURL |-> "", References |-> NilSlice, CVSS |-> NilMap] :
        s \in SeverityStrings}
    \cup
    {[VulnerabilityID |-> "CVE-2", Severity |-> "LOW",
      PrimaryURL |-> u, References |-> r, CVSS |-> NilMap] :
        u \in {"", "u"}, r \in ReferenceLists}
    \cup
    {[VulnerabilityID |-> "CVE-3", Severity |-> "HIGH",
      PrimaryURL |-> "", References |-> NilSlice, CVSS |-> c] : c \in CVSSMaps}

RECURSIVE Lists(_, _)
Lists(S, n) ==
    IF n = 0 THEN {<<>>}
    ELSE Lists(S, n - 1) \cup {Append(l, x) : l \in Lists(S, n - 1), x \in S}

InitTransform ==
    /\ rdb = [k \in {} |-> <<>>]
    /\ ttl = [k \in {} |-> 0]
    /\ pc = [c \in Callers |-> "idle"]
    /\ scanJob = [c \in Callers |-> ZeroScanJob]
    /\ last = NoEvent
    /\ sinceWrite = [id \in JobIDs |-> 0]
    /\ calls = 0
    /\ source \in {NilSlice} \cup {Slice(l) : l \in Lists(Vulnerabilities, MaxLen)}
    /\ report = <<>>
    /\ cfg = [s \in Stores |-> [Namespace |-> Namespace]]
    /\ keys = {}

Transform ==
    /\ report = <<>>
    /\ report' = <<TransformResult("artifact", source)>>
    /\ UNCHANGED <<rdb, ttl, pc, scanJob, last, sinceWrite, source, calls, keyVars>>

SpecTransform == InitTransform /\ [][Transform]_vars

(***************************************************************************)
(* Key construction on its own: store instances with different namespaces  *)
(* build the keys of their jobs.  The namespaces and the job ids are       *)
(* strings the configuration and the callers choose.                       *)
(***************************************************************************)

Namespaces == {"ns", "a", "a:scan-job:b"}

KeyJobIDs == {"j1", "c", "b:scan-job:c"}

InitKeys ==
    /\ rdb = [k \in {} |-> <<>>]
    /\ ttl = [k \in {} |-> 0]
    /\ pc = [c \in Callers |-> "idle"]
    /\ scanJob = [c \in Callers |-> ZeroScanJob]
    /\ last = NoEvent
    /\ sinceWrite = [id \in JobIDs |-> 0]
    /\ source = NilSlice
    /\ report = <<>>
    /\ calls = 0
    /\ cfg \in {f \in [Stores -> [Namespace : Namespaces]] :
                   \A s, t \in Stores : s # t => f[s].Namespace # f[t].Namespace}
    /\ keys = {}

\* Store instance s builds the key of job scanJobID.
KeyFor(s, scanJobID) ==
    /\ \A e \in keys : ~(e.store = s /\ e.id = scanJobID)
    /\ keys' = keys \cup {[store |-> s, id |-> scanJobID,
                            key |-> keyForScanJobOf(cfg[s], scanJobID)]}
    /\ UNCHANGED <<rdb, ttl, pc, scanJob, last, sinceWrite, transformVars, calls, cfg>>

NextKeys == \E s \in Stores, scanJobID \in KeyJobIDs : KeyFor(s, scanJobID)

SpecKeys == InitKeys /\ [][NextKeys]_vars

(***************************************************************************)
(* Properties of the store.  `last` describes the step that led to the     *)
(* state, so a state predicate on `last` and the store speaks of an        *)
(* operation and of the store right after it.                              *)
(***************************************************************************)

LastKey == keyForScanJob(last.id)

\* C1: a Create whose key is already in the store never returns success, and
\* when Redis answered it, it fails with a Conflict error (not a Storage one).
C1_CreateOnExistingKeyIsConflict ==
    (last.op = "Create" /\ last.present) =>
        /\ last.res # "ok"
        /\ last.backendOK => last.res = "Conflict"

\* C2: an UpdateReport whose key is absent when it reads returns NotFound, and
\* the key is absent afterwards.
C2_UpdateReportOnAbsentKeyIsNotFound ==
    (last.op = "UpdateReport" /\ last.step = "Get" /\ last.backendOK /\ ~last.present) =>
        /\ last.res = "NotFound"
        /\ LastKey \notin DOMAIN rdb

\* C3: an UpdateStatus whose key is absent when it reads returns NotFound, goes
\* on to no write, and the key is absent afterwards.
C3_UpdateStatusOnAbsentKeyIsNotFound ==
    (last.op = "UpdateStatus" /\ last.step = "Get" /\ last.backendOK /\ ~last.present) =>
        /\ last.res = "NotFound"
        /\ LastKey \notin DOMAIN rdb

C3_Witness ==
    /\ last.op = "UpdateStatus" /\ last.step = "Get"
    /\ last.backendOK /\ ~last.present
    /\ last.res = "NotFound"
    /\ calls > 1

\* C4: an UpdateStatus or UpdateReport whose read fails in the backend returns
\* that Storage failure: not NotFound, not success.
C4_FailedReadIsStorageError ==
    (last.op \in {"UpdateStatus", "UpdateReport"} /\ last.step = "Get" /\ ~last.backendOK) =>
        last.res = "Storage"

\* C5: a Create whose key is already in the store changes neither the stored
\* value nor its time-to-live, whatever job it is given and whatever else is
\* under way.
C5_CreateNeverOverwrites ==
    [][(last'.op = "Create" /\ keyForScanJob(last'.id) \in DOMAIN rdb)
          => (rdb' = rdb /\ ttl' = ttl)]_vars

C5_Witness ==
    /\ last.op = "Create" /\ last.present /\ last.backendOK
    /\ LastKey \in DOMAIN rdb
    /\ Unmarshal(rdb[LastKey]).job # last.job

\* C6: a Get of the same id that follows directly on a Create that stored its
\* job, and that Redis answers, returns a job equal to the created one in
\* every field.
C6_CreateThenGetReturnsJob ==
    [][(/\ last.op = "Create" /\ last.wrote
        /\ last'.op = "Get" /\ last'.id = last.id /\ last'.backendOK)
          => (last'.res = "ok" /\ last'.job = last.job)]_vars

\* The second call of a run is a Get that returns a job with no zero field:
\* the first call was the Create of that job.
C6_Witness ==
    /\ last.op = "Get" /\ last.res = "ok" /\ calls = 2
    /\ last.job.ID \in JobIDs
    /\ last.job.Status # ZeroScanJob.Status
    /\ last.job.Error # ZeroScanJob.Error
    /\ last.job.Report # ZeroScanJob.Report

\* C7: Get returns "absent" with no error exactly when Redis answers and the
\* key is absent; it returns an error exactly when the command fails (Storage)
\* or the stored value does not decode (Corruption).
C7_GetTellsAbsenceFromFailure ==
    last.op = "Get" =>
        /\ last.res \in {"ok", "absent", "Storage", "Corruption"}
        /\ last.res = "absent" <=> (last.backendOK /\ LastKey \notin DOMAIN rdb)
        /\ last.res = "Storage" <=> ~last.backendOK
        /\ last.res = "Corruption" <=>
              (last.backendOK /\ LastKey \in DOMAIN rdb /\ ~WellFormed(rdb[LastKey]))

C7_Witness ==
    /\ last.op = "Get" /\ last.res = "absent"
    /\ last.backendOK /\ LastKey \notin DOMAIN rdb
    /\ calls > 1

\* C8: a key's remaining time-to-live is the configured one less the ticks
\* since its last write, by Create or by an update alike: every write arms the
\* full ScanJobTTL, and a key written again within each ScanJobTTL ticks is
\* still there.
C8_EveryWriteArmsFullTTL ==
    /\ \A id \in JobIDs :
          keyForScanJob(id) \in DOMAIN rdb =>
              /\ ttl[keyForScanJob(id)] + sinceWrite[id] = ScanJobTTL
              /\ sinceWrite[id] < ScanJobTTL
    /\ (last.op \in {"Create", "UpdateStatus", "UpdateReport"} /\ last.wrote) =>
          (LastKey \in DOMAIN ttl /\ ttl[LastKey] = ScanJobTTL)

\* An update wrote to a key whose time-to-live had run down, and it is full again.
C8_Witness ==
    /\ last.op \in {"UpdateStatus", "UpdateReport"} /\ last.step = "update"
    /\ last.wrote
    /\ last.ttlWas < ScanJobTTL
    /\ ttl[LastKey] = ScanJobTTL

(***************************************************************************)
(* Properties of the transformer                                           *)
(***************************************************************************)

MaxOf(S) == CHOOSE m \in S : \A x \in S : x <= m

ItemSeverities(r) == {r.Vulnerabilities.elems[i].Severity : i \in 1..Len(r.Vulnerabilities.elems)}

\* C9: the report's severity is the greatest severity of its items in the
\* order Unknown < Low < Medium < High < Critical, so no item's severity is
\* above it, and it is Unknown for the empty list.
C9_SeverityIsMaximum ==
    report # <<>> =>
        LET r == report[1]
        IN /\ r.Severity = MaxOf(ItemSeverities(r) \cup {SevUnknown})
           /\ \A s \in ItemSeverities(r) : s <= r.Severity
           /\ Len(r.Vulnerabilities.elems) = 0 => r.Severity = SevUnknown

\* A Critical item between two lower ones.
C9_Witness ==
    /\ report # <<>>
    /\ Len(report[1].Vulnerabilities.elems) = 3
    /\ report[1].Vulnerabilities.elems[1].Severity = SevMedium
    /\ report[1].Vulnerabilities.elems[2].Severity = SevCritical
    /\ report[1].Vulnerabilities.elems[3].Severity = SevHigh
    /\ report[1].Severity = SevCritical

\* C10: an item's links are never nil; they are the primary URL alone when it
\* is not empty, else the references as they are when there are any, else empty.
C10_Links ==
    report # <<>> =>
        \A i \in 1..Len(source.elems) :
            LET v == source.elems[i]
                links == report[1].Vulnerabilities.elems[i].Links
            IN /\ ~links.isNil
               /\ links.elems = IF v.PrimaryURL # "" THEN <<v.PrimaryURL>>
                                ELSE IF ~v.References.isNil THEN v.References.elems
                                ELSE <<>>

\* An item with a primary URL and references: only the primary URL is kept.
C10_Witness ==
    /\ report # <<>>
    /\ \E i \in 1..Len(source.elems) :
          /\ source.elems[i].PrimaryURL # ""
          /\ Len(source.elems[i].References.elems) = 2
          /\ report[1].Vulnerabilities.elems[i].Links = Slice(<<source.elems[i].PrimaryURL>>)


\* C11: every item's vendor attributes are a mapping that is never absent, and
\* it has the key CVSS, holding the source's CVSS mapping, exactly when that
\* mapping is non-empty; an empty or absent source mapping leaves the key out.
C11_VendorAttributes ==
    report # <<>> =>
        \A i \in 1..Len(source.elems) :
            LET info == source.elems[i].CVSS
                attributes == report[1].Vulnerabilities.elems[i].VendorAttributes
            IN /\ ~attributes.isNil
               /\ ("CVSS" \in DOMAIN attributes.m) <=> (DOMAIN info.m # {})
               /\ "CVSS" \in DOMAIN attributes.m => attributes.m["CVSS"] = info
               /\ DOMAIN attributes.m \subseteq {"CVSS"}

C11_Witness ==
    /\ report # <<>>
    /\ Len(source.elems) = 3
    /\ source.elems[1].CVSS.isNil
    /\ ~source.elems[2].CVSS.isNil /\ DOMAIN source.elems[2].CVSS.m = {}
    /\ DOMAIN source.elems[3].CVSS.m = {"nvd"}
    /\ "CVSS" \in DOMAIN report[1].Vulnerabilities.elems[3].VendorAttributes.m
    /\ "CVSS" \notin DOMAIN report[1].Vulnerabilities.elems[2].VendorAttributes.m

\* C12: the transformation is total: it yields a report for every input.  A
\* severity string that is not exactly CRITICAL, HIGH, MEDIUM, LOW or UNKNOWN
\* maps to Unknown, and a report whose items are all unrecognized has the
\* aggregate severity Unknown.
C12_UnrecognizedSeverityIsUnknown ==
    LET recognized == {"CRITICAL", "HIGH", "MEDIUM", "LOW", "UNKNOWN"}
        strange(i) == source.elems[i].Severity \notin recognized
    IN /\ report = <<>> => ENABLED Transform
       /\ report # <<>> =>
           /\ \A i \in 1..Len(source.elems) :
                 strange(i) =>
                     report[1].Vulnerabilities.elems[i].Severity = SevUnknown
           /\ (\A i \in 1..Len(source.elems) : strange(i)) =>
                 report[1].Severity = SevUnknown

C12_Witness ==
    /\ report # <<>>
    /\ Len(source.elems) = 3
    /\ source.elems[1].Severity = "critical"
    /\ source.elems[2].Severity = "WHATEVER"
    /\ source.elems[3].Severity = ""
    /\ report[1].Severity = SevUnknown

\* C13: the report's items are as many as the source's, the i-th item is the
\* mapping of the i-th source item, and an empty or absent source yields an
\* empty sequence that is not absent, with the aggregate severity Unknown.
C13_ItemsFollowSource ==
    report # <<>> =>
        LET items == report[1].Vulnerabilities
        IN /\ ~items.isNil
           /\ Len(items.elems) = Len(source.elems)
           /\ \A i \in 1..Len(source.elems) :
                 /\ items.elems[i] = toItem(source.elems[i])
                 /\ items.elems[i].ID = source.elems[i].VulnerabilityID
           /\ Len(source.elems) = 0 =>
                 /\ items = Slice(<<>>)
                 /\ report[1].Severity = SevUnknown

C13_Witness ==
    /\ report # <<>>
    /\ Len(source.elems) = 3
    /\ source.elems[1].VulnerabilityID = "CVE-2"
    /\ source.elems[2].VulnerabilityID = "CVE-3"
    /\ source.elems[3].VulnerabilityID = "CVE-1"
    /\ report[1].Vulnerabilities.elems[1].ID = "CVE-2"
    /\ report[1].Vulnerabilities.elems[3].ID = "CVE-1"

\* C18: the key "{namespace}:scan-job:{job_id}" is injective on (namespace,
\* job id): two keys that are equal were built by stores of the same
\* namespace for the same job id, so stores of different namespaces never
\* meet on a key.
C18_KeysAreInjective ==
    \A a, b \in keys :
        a.key = b.key =>
            (cfg[a.store].Namespace = cfg[b.store].Namespace /\ a.id = b.id)

\* C19: the aggregate severity does not depend on the order of the items:
\* every permutation of the report's items has the report's severity, and a
\* Critical item at any position makes the aggregate Critical.
C19_SeverityIsOrderIndependent ==
    report # <<>> =>
        LET items == report[1].Vulnerabilities.elems
            n == Len(items)
        IN /\ \A p \in Permutations(1..n) :
                 toHighestSeverity([i \in 1..n |-> items[p[i]]]) = report[1].Severity
           /\ (\E i \in 1..n : items[i].Severity = SevCritical) =>
                 report[1].Severity = SevCritical

C19_Witness ==
    /\ report # <<>>
    /\ Len(report[1].Vulnerabilities.elems) = 3
    /\ report[1].Vulnerabilities.elems[1].Severity = SevLow
    /\ report[1].Vulnerabilities.elems[2].Severity = SevHigh
    /\ report[1].Vulnerabilities.elems[3].Severity = SevCritical
    /\ report[1].Severity = SevCritical

(***************************************************************************)
(* Properties of the store under concurrent updates and expiry.            *)
(***************************************************************************)

\* C14: when two updates of one job both read before either writes, both
\* return success and the record stored in the end is the last writer's whole
\* record, without the other's change: every update that wrote returned
\* success and left exactly its own record, all four fields, under the key.
C14_LastWriterWins ==
    (last.step = "update" /\ last.wrote) =>
        /\ last.res = "ok"
        /\ LastKey \in DOMAIN rdb
        /\ Unmarshal(rdb[LastKey]) = [ok |-> TRUE, job |-> last.job]

\* One create and two reads were the run's three calls.  update_status and
\* update_report both read the record create stored; update_status wrote
\* Finished, and update_report, writing right after it, put the status back to
\* the Queued it had read.
C14_Witness ==
    /\ last.op = "UpdateReport" /\ last.step = "update"
    /\ last.wrote /\ last.lost /\ last.res = "ok"
    /\ pc = [c \in Callers |-> "idle"]
    /\ calls = 3
    /\ last.job.Status = "Queued"
    /\ last.job.Report = "R1"
    /\ Unmarshal(rdb[LastKey]).job = last.job

\* C15: a key goes from absent to present only in a create of that job, and
\* from present to absent only when its time-to-live runs out; no update
\* creates a key and no store operation deletes one.
C15_KeyLifecycle ==
    [][DOMAIN rdb' # DOMAIN rdb =>
          \A id \in JobIDs :
              LET key == keyForScanJob(id)
              IN /\ (key \notin DOMAIN rdb /\ key \in DOMAIN rdb') =>
                        (last'.op = "Create" /\ last'.id = id)
                 /\ (key \in DOMAIN rdb /\ key \notin DOMAIN rdb') =>
                        (last'.op = "Tick" /\ key \in Expired)]_vars

\* An update whose key expired after its read ran its SetXX and left the key
\* absent.
C15_Witness ==
    /\ last.step = "update"
    /\ last.backendOK
    /\ ~last.present
    /\ LastKey \notin DOMAIN rdb

\* C16: an update that no other writer interleaves changes only its field.
\* When an update's write follows its own read directly and no other caller
\* is between a read and a write, the record stored has the id of the record
\* read; after update_status it has the requested status, the message as
\* error when one is supplied and the error read otherwise, and the report
\* read; after update_report it has the requested report and the status and
\* error read.
C16_UpdateChangesOnlyItsField ==
    [][(/\ last.step = "Get" /\ last.res = "proceed"
        /\ last'.step = "update" /\ last'.wrote
        /\ Cardinality({c \in Callers : pc[c] # "idle"}) = 1) =>
           LET c == CHOOSE c \in Callers : pc[c] # "idle"
               read == last.job
               written == Unmarshal(rdb'[keyForScanJob(last.id)]).job
           IN /\ written.ID = read.ID
              /\ pc[c] = "UpdateStatus" =>
                    /\ written.Report = read.Report
                    /\ \A st \in Statuses, e \in ErrorArgs :
                          scanJob[c] = SetStatus(read, st, e) =>
                              written = [ID     |-> read.ID,
                                         Status |-> st,
                                         Error  |-> IF e = <<>> THEN read.Error
                                                    ELSE e[1],
                                         Report |-> read.Report]
              /\ pc[c] = "UpdateReport" =>
                    /\ written.Status = read.Status
                    /\ written.Error = read.Error
                    /\ \A rep \in Reports :
                          scanJob[c] = SetReport(read, rep) =>
                              written = [ID     |-> read.ID,
                                         Status |-> read.Status,
                                         Error  |-> read.Error,
                                         Report |-> rep]
      ]_vars

\* The run's two calls were a create and an update_status, which changed the
\* status of the record it read and wrote it back with the report it had.
C16_Witness ==
    /\ calls = 2
    /\ last.op = "UpdateStatus" /\ last.step = "update"
    /\ last.wrote /\ last.res = "ok"
    /\ last.job.Status = "Finished"
    /\ last.job.Error = "boom"
    /\ last.job.Report = "R1"
    /\ Unmarshal(rdb[LastKey]).job = last.job

\* C17: the record stored under the key of job id j has the id j, and every
\* key in Redis is the key of a job id.
C17_StoredIdMatchesKey ==
    /\ DOMAIN rdb \subseteq {keyForScanJob(id) : id \in JobIDs}
    /\ \A id \in JobIDs :
          keyForScanJob(id) \in DOMAIN rdb =>
              LET decoded == Unmarshal(rdb[keyForScanJob(id)])
              IN decoded.ok /\ decoded.job.ID = id

C17_Witness ==
    /\ \A id \in JobIDs : keyForScanJob(id) \in DOMAIN rdb
    /\ last.step = "update"
    /\ last.wrote
    /\ Unmarshal(rdb[LastKey]).job.ID = last.id

\* C20: an update that returns success has written: right after its write
\* step the record it returned success for is stored under the job's key.
C20_SuccessMeansWritten ==
    (last.step = "update" /\ last.res = "ok") =>
        /\ last.wrote
        /\ LastKey \in DOMAIN rdb
        /\ Unmarshal(rdb[LastKey]).job = last.job
====
